---- MODULE Spec2Model ----
(***************************************************************************)
(* Model of typst-as-lib's TypstTemplateCollection (src/src/lib.rs): the   *)
(* resolver chain, the per-call TypstWorld, input injection into the       *)
(* library's global scope, and the compile entry points.  The compiler     *)
(* engine (typst::compile) is external: it is modelled as a client that    *)
(* first asks the world for the main source and then issues any sequence   *)
(* of source/file/today queries before it returns an output and warnings.  *)
(***************************************************************************)
EXTENDS Integers, Sequences, FiniteSets, TLC

(***************************************************************************)
(* Bounds of the model.                                                     *)
(***************************************************************************)
MaxResolvers == 2   \* length of file_resolvers
MaxQueries == 2     \* world queries the engine issues after the main source
MaxAge == 1         \* largest configured comemo_evict_max_age

HoursPerDay == 24

Threads == {"t1", "t2"}
Ids == {"/main.typ", "/a.typ"}
Ops == {"source", "binary"}
Contents == {"c1", "c2"}
Inputs == {"A", "B"}
GlobalNames == {"sys", "calc", "text", "ext"}

VARIABLES
    file_resolvers,        \* TypstTemplateCollection.file_resolvers
    inject_location,       \* TypstTemplateCollection.inject_location
    library,               \* TypstTemplateCollection.library (global scope)
    comemo_evict_max_age,  \* TypstTemplateCollection.comemo_evict_max_age
    caches,                \* caches[i]: memo table of the decorator at index i
    fs,                    \* files under the file system resolver's root
    clock,                 \* wall clock (Utc::now()), in hours
    calls,                 \* calls[t]: the compile call thread t is in
    lastQ,                 \* the last resolution of the call in flight
    served                 \* per decorator and key: its last outcome since
                           \* the last eviction

vars == <<file_resolvers, inject_location, library, comemo_evict_max_age,
          caches, fs, clock, calls, lastQ, served>>

(***************************************************************************)
(* Values.                                                                  *)
(***************************************************************************)
NoError == [variant |-> "none", payload |-> "none"]
Ok(v) == [ok |-> TRUE, val |-> v, err |-> NoError]
Err(e) == [ok |-> FALSE, val |-> "none", err |-> e]

FileError(kind, id) == [variant |-> kind, payload |-> id]
not_found(id) == FileError("NotFound", id)

None == [some |-> FALSE, v |-> 0]
Some(n) == [some |-> TRUE, v |-> n]

NoLocation == [some |-> FALSE, module_name |-> "", value_name |-> ""]
InjectLocation(m, v) == [some |-> TRUE, module_name |-> m, value_name |-> v]

\* A slot of the global scope: absent, a module with its scope (a set of
\* <<name, value>> bindings), or another value; Captured slots refuse
\* mutable access.
Absent == [type |-> "none", kind |-> "Normal", scope |-> {}]
ModuleValue(kind, scope) == [type |-> "module", kind |-> kind, scope |-> scope]
FuncValue == [type |-> "func", kind |-> "Normal", scope |-> {}]

\* Library::default(): sys holds version and the (empty) inputs dictionary.
\* calc stands for a slot whose mutable access the scope refuses.
DefaultLibrary ==
    [n \in GlobalNames |->
        CASE n = "sys"  -> ModuleValue("Normal", {<<"version", "ver">>, <<"inputs", "empty">>})
          [] n = "calc" -> ModuleValue("Captured", {<<"pi", "3.14">>})
          [] n = "text" -> FuncValue
          [] OTHER      -> Absent]

(***************************************************************************)
(* Resolvers.  A resolver is [kind, ok, err, content]:                      *)
(*   custom         a caller's FileResolver: content for the ids in ok,     *)
(*                  its error err for every other id;                       *)
(*   static_source  sources only; static_file  binaries only;               *)
(*   fs             FileSystemResolver::new(root).into_cached();            *)
(*   fs_uncached    FileSystemResolver::new(root) without the decorator.    *)
(***************************************************************************)
FileSystemKinds == {"fs", "fs_uncached"}
Keys == Ops \X Ids
\* An entry keeps its content and its age: the current epoch minus the epoch
\* it was inserted in.
NoEntry == [content |-> "none", age |-> 0]
EmptyCache == [k \in Keys |-> NoEntry]
NothingServed == [k \in Keys |-> "none"]

Plain(result, cache) == [result |-> result, cache |-> cache, inner |-> FALSE]

\* FileSystemResolver: reads the file under the root.
fs_resolve(id) ==
    IF fs[id] = "absent" THEN Err(not_found(id)) ELSE Ok(fs[id])

\* The file system resolver on its own: every call reads the file.
uncached_resolve(cache, op, id) ==
    [result |-> fs_resolve(id), cache |-> cache, inner |-> TRUE]

\* Caching decorator: a hit returns the cached content without invoking the
\* inner resolver; a miss invokes it and inserts on success only.
cached_resolve(cache, op, id) ==
    LET entry == cache[<<op, id>>]
    IN IF entry.content # "none"
       THEN [result |-> Ok(entry.content), cache |-> cache, inner |-> FALSE]
       ELSE LET result == fs_resolve(id)
            IN [result |-> result,
                cache |-> IF result.ok
                          THEN [cache EXCEPT ![<<op, id>>] =
                                    [content |-> result.val, age |-> 0]]
                          ELSE cache,
                inner |-> TRUE]

\* resolve_source / resolve_binary of one resolver.
resolve(r, cache, op, id) ==
    CASE r.kind = "custom" ->
            Plain(IF id \in r.ok THEN Ok(r.content) ELSE Err(FileError(r.err, id)), cache)
      [] r.kind = "static_source" ->
            Plain(IF op = "source" /\ id \in r.ok THEN Ok(r.content) ELSE Err(not_found(id)), cache)
      [] r.kind = "static_file" ->
            Plain(IF op = "binary" /\ id \in r.ok THEN Ok(r.content) ELSE Err(not_found(id)), cache)
      [] r.kind = "fs_uncached" -> uncached_resolve(cache, op, id)
      [] OTHER -> cached_resolve(cache, op, id)

\* What resolver i alone answers in the current state.
Out(i, op, id) == resolve(file_resolvers[i], caches[i], op, id).result

(***************************************************************************)
(* The resolver chain: resolve_file and resolve_source.                     *)
(***************************************************************************)
ChainStart == [result |-> Err(NoError), caches |-> caches, invoked |-> <<>>, inner |-> {}]

\* Faulty variant: keeps the first error instead of the last.
RECURSIVE chain_first_error(_, _, _, _, _)
chain_first_error(op, id, i, last_error, acc) ==
    IF i > Len(file_resolvers)
    THEN [acc EXCEPT !.result = Err(last_error)]
    ELSE LET r == resolve(file_resolvers[i], acc.caches[i], op, id)
             acc2 == [acc EXCEPT !.caches[i] = r.cache,
                                 !.invoked = Append(@, i),
                                 !.inner = IF r.inner THEN @ \cup {i} ELSE @]
         IN IF r.result.ok
            THEN [acc2 EXCEPT !.result = r.result]
            ELSE chain_first_error(op, id, i + 1,
                                   IF i = 1 THEN r.result.err ELSE last_error, acc2)

\* Faulty variant: goes on after a success, the last success winning.
RECURSIVE chain_last_success(_, _, _, _, _)
chain_last_success(op, id, i, last_error, acc) ==
    IF i > Len(file_resolvers)
    THEN IF acc.result.ok THEN acc ELSE [acc EXCEPT !.result = Err(last_error)]
    ELSE LET r == resolve(file_resolvers[i], acc.caches[i], op, id)
             acc2 == [acc EXCEPT !.caches[i] = r.cache,
                                 !.invoked = Append(@, i),
                                 !.inner = IF r.inner THEN @ \cup {i} ELSE @]
         IN IF r.result.ok
            THEN chain_last_success(op, id, i + 1, last_error,
                                    [acc2 EXCEPT !.result = r.result])
            ELSE chain_last_success(op, id, i + 1, r.result.err, acc2)

\* The loop over file_resolvers from index i on, last_error being the error
\* kept so far.
RECURSIVE chain(_, _, _, _, _)
chain(op, id, i, last_error, acc) ==
    IF i > Len(file_resolvers)
    THEN [acc EXCEPT !.result = Err(last_error)]
    ELSE LET r == resolve(file_resolvers[i], acc.caches[i], op, id)
             acc2 == [acc EXCEPT !.caches[i] = r.cache,
                                 !.invoked = Append(@, i),
                                 !.inner = IF r.inner THEN @ \cup {i} ELSE @]
         IN IF r.result.ok
            THEN [acc2 EXCEPT !.result = r.result]
            ELSE chain(op, id, i + 1, r.result.err, acc2)

\* Faulty variant: the pre-set error is not NotFound.
resolve_file_other_default(file_id) ==
    chain("binary", file_id, 1, FileError("Other", file_id), ChainStart)

resolve_file(file_id) == chain("binary", file_id, 1, not_found(file_id), ChainStart)

resolve_source(file_id) == chain("source", file_id, 1, not_found(file_id), ChainStart)

(***************************************************************************)
(* comemo::evict(max_age): advances the epoch (every entry is one tick      *)
(* older) and removes every entry that is more than max_age ticks old.      *)
(***************************************************************************)
evict(cs, max_age) ==
    [i \in DOMAIN cs |->
        [k \in Keys |->
            IF cs[i][k].content = "none" THEN NoEntry
            ELSE IF cs[i][k].age + 1 > max_age THEN NoEntry
            ELSE [cs[i][k] EXCEPT !.age = @ + 1]]]

(***************************************************************************)
(* inject_input_into_library.                                               *)
(***************************************************************************)
HintedString == [variant |-> "HintedString", payload |-> "read-only"]

\* Faulty variant: defines the value in the module's scope, keeping the
\* module's other bindings.
inject_input_into_library_merge(lib, loc, input) ==
    LET module_name == IF loc.some THEN loc.module_name ELSE "sys"
        value_name == IF loc.some THEN loc.value_name ELSE "inputs"
        value == lib[module_name]
        scope == {b \in value.scope : b[1] # value_name} \cup {<<value_name, input>>}
    IN IF value.type # "none" /\ value.kind = "Captured"
       THEN [ok |-> FALSE, lib |-> lib, err |-> HintedString]
       ELSE [ok |-> TRUE,
             lib |-> [lib EXCEPT ![module_name] = ModuleValue(value.kind, scope)],
             err |-> NoError]

inject_input_into_library(lib, loc, input) ==
    LET module_name == IF loc.some THEN loc.module_name ELSE "sys"
        value_name == IF loc.some THEN loc.value_name ELSE "inputs"
        scope == {<<value_name, input>>}
        value == lib[module_name]
    IN IF value.type # "none"
       THEN IF value.kind = "Captured"
            THEN [ok |-> FALSE, lib |-> lib, err |-> HintedString]
            ELSE IF value.type = "module"
                 THEN [ok |-> TRUE,
                       lib |-> [lib EXCEPT ![module_name].scope = scope],
                       err |-> NoError]
                 ELSE [ok |-> TRUE,
                       lib |-> [lib EXCEPT ![module_name] = ModuleValue(value.kind, scope)],
                       err |-> NoError]
       ELSE [ok |-> TRUE,
             lib |-> [lib EXCEPT ![module_name] = ModuleValue("Normal", scope)],
             err |-> NoError]

\* Faulty variant: injects into self.library instead of a clone.
create_injected_library_in_place(self_library, loc, input) ==
    LET res == inject_input_into_library(self_library, loc, input)
    IN [ok |-> res.ok, lib |-> res.lib, err |-> res.err, self_library |-> res.lib]

\* create_injected_library: the injected clone, and self.library after it.
create_injected_library(self_library, loc, input) ==
    LET lib == self_library
        res == inject_input_into_library(lib, loc, input)
    IN [ok |-> res.ok, lib |-> res.lib, err |-> res.err, self_library |-> self_library]

(***************************************************************************)
(* TypstWorld.                                                              *)
(***************************************************************************)
Borrowed == [cow |-> "Borrowed", lib |-> DefaultLibrary]
\* Faulty variant: the world of a call with an input borrows self.library.
Owned_borrows_base(lib) == [cow |-> "Borrowed", lib |-> lib]

Owned(lib) == [cow |-> "Owned", lib |-> lib]

\* TypstWorld::library
WorldLibrary(w) == IF w.library.cow = "Borrowed" THEN library ELSE w.library.lib

\* TypstWorld::today: the date, as a day number, of now shifted by offset hours.
\* Faulty variant: reads the wall clock at each query.
today_wall_clock(w, offset) ==
    LET now == IF offset.some THEN clock + offset.v ELSE clock
    IN now \div HoursPerDay

today(w, offset) ==
    LET now == IF offset.some THEN w.now + offset.v ELSE w.now
    IN now \div HoursPerDay

(***************************************************************************)
(* TypstAsLibError and the values a compile call returns.                   *)
(***************************************************************************)
\* EcoVec<SourceDiagnostic>, the engine's fatal diagnostics
Diagnostics(d) == [variant |-> "SourceDiagnostics", payload |-> d]
TypstSource(diags) == [variant |-> "TypstSource", payload |-> diags.payload]
MainSourceFileDoesNotExist(id) == [variant |-> "MainSourceFileDoesNotExist", payload |-> id]

Warned(output, warnings) == [output |-> output, warnings |-> warnings]
NoWarned == Warned(Err(NoError), <<>>)

\* output.map_err(Into::into)
map_err(output) == IF output.ok THEN output ELSE Err(TypstSource(output.err))

\* Faulty variant: the warnings are lost with an error.
returned_drop_warnings(engine) ==
    Warned(map_err(engine.output), IF engine.output.ok THEN engine.warnings ELSE <<>>)

\* Warned { output: output.map_err(Into::into), warnings }
returned(engine) == Warned(map_err(engine.output), engine.warnings)

(***************************************************************************)
(* Inputs of the model.                                                     *)
(***************************************************************************)
Offsets == {None, Some(-1)}
Clocks == {23, 24}
WarningLists == {<<>>, <<"w1">>}
EngineOutputs == {Ok("doc"), Err(Diagnostics("diag_src"))}
Ages == {None} \cup {Some(n) : n \in 0..MaxAge}
Locations == {InjectLocation("calc", "data"), InjectLocation("text", "data"),
              InjectLocation("ext", "data")}
CustomResolvers ==
    {[kind |-> "custom", ok |-> {}, err |-> "AccessDenied", content |-> "c1"],
     [kind |-> "custom", ok |-> {"/main.typ"}, err |-> "Other", content |-> "c1"]}
StaticSources == {{"/main.typ"}}
StaticFiles == {{"/a.typ"}}
FsIds == {"/main.typ"}

Range(seq) == {seq[i] : i \in DOMAIN seq}

IdleCall ==
    [pc |-> "idle", kind |-> "none", main |-> "none", input |-> "none",
     world |-> [library |-> Borrowed, now |-> 0],
     engine |-> NoWarned, ret |-> NoWarned,
     todays |-> [o \in Offsets |-> <<>>],
     nq |-> 0, queried |-> FALSE, engine_invoked |-> FALSE, evictions |-> 0,
     main_known |-> FALSE]

NoQuery == [op |-> "none", id |-> "none", result |-> Err(NoError),
            invoked |-> <<>>, inner |-> {}, outs |-> <<>>, cached |-> <<>>,
            before |-> <<>>]

InFlight(t) == calls[t].pc \notin {"idle", "returned"}
NoneInFlight == \A t \in Threads : ~InFlight(t)

\* Some resolver of the collection resolves id as a source.
Registered(id) == \E i \in DOMAIN file_resolvers : Out(i, "source", id).ok

(***************************************************************************)
(* Init: TypstTemplateCollection::new.                                      *)
(***************************************************************************)
Init ==
    /\ file_resolvers = <<>>
    /\ inject_location = NoLocation
    /\ library = DefaultLibrary
    /\ comemo_evict_max_age = Some(0)
    /\ caches = <<>>
    /\ fs = [id \in Ids |-> "absent"]
    /\ clock = 23
    /\ calls = [t \in Threads |-> IdleCall]
    /\ lastQ = NoQuery
    /\ served = <<>>

(***************************************************************************)
(* Configuration (&mut self: no compile call is in flight).                 *)
(***************************************************************************)
add_file_resolver_mut(file_resolver) ==
    /\ NoneInFlight
    /\ Len(file_resolvers) < MaxResolvers
    /\ file_resolvers' = Append(file_resolvers, file_resolver)
    /\ caches' = Append(caches, EmptyCache)
    /\ served' = Append(served, NothingServed)
    /\ UNCHANGED <<inject_location, library, comemo_evict_max_age, fs,
                   clock, calls, lastQ>>

AddFileResolver == \E r \in CustomResolvers : add_file_resolver_mut(r)

with_static_source_file_resolver_mut ==
    \E sources \in StaticSources :
        add_file_resolver_mut([kind |-> "static_source", ok |-> sources,
                               err |-> "NotFound", content |-> "c2"])

with_static_file_resolver_mut ==
    \E binaries \in StaticFiles :
        add_file_resolver_mut([kind |-> "static_file", ok |-> binaries,
                               err |-> "NotFound", content |-> "c2"])

\* FileSystemResolver::new(root).into_cached()
\* Faulty variant: the resolver is installed without into_cached().
UncachedFileSystemResolver ==
    [kind |-> "fs_uncached", ok |-> {}, err |-> "NotFound", content |-> "none"]

CachedFileSystemResolver ==
    [kind |-> "fs", ok |-> {}, err |-> "NotFound", content |-> "none"]

with_file_system_resolver_mut == add_file_resolver_mut(CachedFileSystemResolver)

custom_inject_location_mut ==
    /\ NoneInFlight
    /\ ~inject_location.some
    /\ \E loc \in Locations : inject_location' = loc
    /\ UNCHANGED <<file_resolvers, library, comemo_evict_max_age, caches, fs,
                   clock, calls, lastQ, served>>

set_comemo_evict_max_age ==
    /\ NoneInFlight
    /\ \E age \in Ages :
          /\ age # comemo_evict_max_age
          /\ comemo_evict_max_age' = age
    /\ UNCHANGED <<file_resolvers, inject_location, library, caches, fs,
                   clock, calls, lastQ, served>>

(***************************************************************************)
(* The environment: files change, time passes.                              *)
(***************************************************************************)
FsWrite ==
    /\ \E id \in FsIds, c \in Contents \cup {"absent"} :
          /\ fs[id] # c
          /\ fs' = [fs EXCEPT ![id] = c]
    /\ UNCHANGED <<file_resolvers, inject_location, library, comemo_evict_max_age,
                   caches, clock, calls, lastQ, served>>

Tick ==
    /\ \E c \in Clocks : c > clock /\ clock' = c
    /\ UNCHANGED <<file_resolvers, inject_location, library, comemo_evict_max_age,
                   caches, fs, calls, lastQ, served>>

(***************************************************************************)
(* Compile calls.                                                           *)
(***************************************************************************)
NewCall(kind, main, input, w) ==
    [IdleCall EXCEPT !.pc = "engine_main", !.kind = kind, !.main = main,
                     !.input = input, !.world = w, !.main_known = Registered(main)]

\* Faulty variant: the injection error is reported as a source error.
Failed_as_source_error(kind, main, input, err) ==
    [IdleCall EXCEPT !.pc = "returned", !.kind = kind, !.main = main,
                     !.input = input,
                     !.ret = Warned(Err([variant |-> "TypstSource",
                                         payload |-> err.payload]), <<>>),
                     !.main_known = Registered(main)]

Failed(kind, main, input, err) ==
    [IdleCall EXCEPT !.pc = "returned", !.kind = kind, !.main = main,
                     !.input = input, !.ret = Warned(Err(err), <<>>),
                     !.main_known = Registered(main)]

\* compile_helper up to typst::compile(&world): builds the world.
compile_helper(t, kind, main_source_id, inputs) ==
    /\ ~InFlight(t)
    /\ \A u \in Threads : InFlight(u) => calls[u].kind # "compile_with_input_fast"
    /\ IF inputs.some
       THEN LET lib == create_injected_library(library, inject_location, inputs.v)
            IN /\ library' = lib.self_library
               /\ calls' = [calls EXCEPT ![t] =
                     IF lib.ok
                     THEN NewCall(kind, main_source_id, inputs.v,
                                  [library |-> Owned(lib.lib), now |-> clock])
                     ELSE Failed(kind, main_source_id, inputs.v, lib.err)]
       ELSE /\ library' = library
            /\ calls' = [calls EXCEPT ![t] =
                     NewCall(kind, main_source_id, "none",
                             [library |-> Borrowed, now |-> clock])]
    /\ UNCHANGED <<file_resolvers, inject_location, comemo_evict_max_age, caches,
                   fs, clock, lastQ, served>>

compile(t) ==
    \E main \in Ids :
        compile_helper(t, "compile", main, [some |-> FALSE, v |-> "none"])

compile_with_input(t) ==
    \E main \in Ids, input \in Inputs :
        compile_helper(t, "compile_with_input", main, [some |-> TRUE, v |-> input])

\* compile_with_input_fast up to typst::compile(&world): injects into
\* self.library and borrows it (&mut self: no other call is in flight).
compile_with_input_fast(t) ==
    /\ NoneInFlight
    /\ \E main \in Ids, input \in Inputs :
          LET res == inject_input_into_library(library, inject_location, input)
          IN /\ library' = res.lib
             /\ calls' = [calls EXCEPT ![t] =
                   IF res.ok
                   THEN NewCall("compile_with_input_fast", main, input,
                                [library |-> Borrowed, now |-> clock])
                   ELSE Failed("compile_with_input_fast", main, input, res.err)]
    /\ UNCHANGED <<file_resolvers, inject_location, comemo_evict_max_age, caches,
                   fs, clock, lastQ, served>>

(***************************************************************************)
(* typst::compile(&world): the engine's queries of the world.               *)
(***************************************************************************)
\* TypstWorld::source / TypstWorld::file: one resolution through the chain,
\* recorded in lastQ and served.
Resolution(op, id) ==
    LET r == IF op = "source" THEN resolve_source(id) ELSE resolve_file(id)
        n == Len(file_resolvers)
    IN [result |-> r.result,
        caches |-> r.caches,
        lastQ |-> [op |-> op, id |-> id, result |-> r.result,
                   invoked |-> r.invoked, inner |-> r.inner,
                   outs |-> [i \in 1..n |-> Out(i, op, id)],
                   cached |-> [i \in 1..n |-> caches[i][<<op, id>>].content # "none"],
                   before |-> [i \in 1..n |-> served[i][<<op, id>>]]],
        served |-> [i \in 1..n |->
                      IF i \in Range(r.invoked) /\ file_resolvers[i].kind \in FileSystemKinds
                      THEN [served[i] EXCEPT ![<<op, id>>] =
                               IF Out(i, op, id).ok THEN Out(i, op, id).val ELSE "failed"]
                      ELSE served[i]]]

\* The engine first asks for the main source; without it, it reports a
\* fatal diagnostic.
EngineMain(t) ==
    /\ calls[t].pc = "engine_main"
    /\ LET q == Resolution("source", calls[t].main)
       IN /\ caches' = q.caches
          /\ lastQ' = q.lastQ
          /\ served' = q.served
          /\ IF q.result.ok
             THEN calls' = [calls EXCEPT ![t].pc = "engine_run",
                                         ![t].queried = TRUE,
                                         ![t].engine_invoked = TRUE]
             ELSE \E warnings \in WarningLists :
                    calls' = [calls EXCEPT
                       ![t].pc = "compiled",
                       ![t].queried = TRUE,
                       ![t].engine_invoked = TRUE,
                       ![t].engine = Warned(Err(Diagnostics("diag_main")), warnings)]
    /\ UNCHANGED <<file_resolvers, inject_location, library, comemo_evict_max_age,
                   fs, clock>>

EngineQuery(t) ==
    /\ calls[t].pc = "engine_run"
    /\ calls[t].nq < MaxQueries
    /\ \E op \in Ops, id \in Ids :
          LET q == Resolution(op, id)
          IN /\ caches' = q.caches
             /\ lastQ' = q.lastQ
             /\ served' = q.served
    /\ calls' = [calls EXCEPT ![t].nq = @ + 1]
    /\ UNCHANGED <<file_resolvers, inject_location, library, comemo_evict_max_age,
                   fs, clock>>

EngineToday(t) ==
    /\ calls[t].pc = "engine_run"
    /\ calls[t].nq < MaxQueries
    /\ \E offset \in Offsets :
          calls' = [calls EXCEPT ![t].nq = @ + 1,
                                 ![t].todays[offset] =
                                     Append(@, [date |-> today(calls[t].world, offset),
                                                at |-> clock])]
    /\ UNCHANGED <<file_resolvers, inject_location, library, comemo_evict_max_age,
                   caches, fs, clock, lastQ, served>>

EngineFinish(t) ==
    /\ calls[t].pc = "engine_run"
    /\ \E output \in EngineOutputs, warnings \in WarningLists :
          calls' = [calls EXCEPT ![t].pc = "compiled",
                                 ![t].engine = Warned(output, warnings)]
    /\ UNCHANGED <<file_resolvers, inject_location, library, comemo_evict_max_age,
                   caches, fs, clock, lastQ, served>>

(***************************************************************************)
(* After typst::compile returned.                                           *)
(***************************************************************************)
\* The call is over: the world is dropped, the caller holds the Warned value.
Returned(c, ret) ==
    [c EXCEPT !.pc = "returned", !.ret = ret, !.world = IdleCall.world,
              !.todays = IdleCall.todays, !.nq = 0]

\* Faulty variant: evicts whether or not an age is configured.
eviction_always(cs, max_age) == evict(cs, max_age.v)

\* if let Some(max_age) = self.comemo_evict_max_age { comemo::evict(max_age) }
eviction(cs, max_age) == IF max_age.some THEN evict(cs, max_age.v) ELSE cs

\* compile_helper: evict if an age is configured, then return.
compile_helper_return(t) ==
    /\ calls[t].pc = "compiled"
    /\ calls[t].kind # "compile_with_input_fast"
    /\ caches' = eviction(caches, comemo_evict_max_age)
    /\ IF comemo_evict_max_age.some
       THEN /\ served' = [i \in DOMAIN served |-> NothingServed]
            /\ calls' = [calls EXCEPT ![t] =
                  Returned([calls[t] EXCEPT !.evictions = @ + 1],
                           returned(calls[t].engine))]
       ELSE /\ UNCHANGED served
            /\ calls' = [calls EXCEPT ![t] =
                  Returned(calls[t], returned(calls[t].engine))]
    /\ lastQ' = NoQuery
    /\ UNCHANGED <<file_resolvers, inject_location, library, comemo_evict_max_age,
                   fs, clock>>

\* compile_with_input_fast: return.
compile_with_input_fast_return(t) ==
    /\ calls[t].pc = "compiled"
    /\ calls[t].kind = "compile_with_input_fast"
    /\ calls' = [calls EXCEPT ![t] = Returned(calls[t], returned(calls[t].engine))]
    /\ lastQ' = NoQuery
    /\ UNCHANGED <<file_resolvers, inject_location, library, comemo_evict_max_age,
                   caches, fs, clock, served>>

Caller == "t1"

Next ==
    \/ with_static_source_file_resolver_mut
    \/ custom_inject_location_mut
    \/ Tick
    \/ compile(Caller)
    \/ compile_with_input(Caller)
    \/ compile_with_input_fast(Caller)
    \/ EngineMain(Caller)
    \/ EngineQuery(Caller)
    \/ EngineToday(Caller)
    \/ EngineFinish(Caller)
    \/ compile_helper_return(Caller)
    \/ compile_with_input_fast_return(Caller)

Spec == Init /\ [][Next]_vars

\* The resolver chain: every kind of resolver, compile only.
NextChain ==
    \/ AddFileResolver
    \/ with_static_source_file_resolver_mut
    \/ with_static_file_resolver_mut
    \/ with_file_system_resolver_mut
    \/ FsWrite
    \/ compile(Caller)
    \/ EngineMain(Caller)
    \/ EngineQuery(Caller)
    \/ EngineFinish(Caller)
    \/ compile_helper_return(Caller)

SpecChain == Init /\ [][NextChain]_vars

\* Concurrent callers: compile and compile_with_input take &self, so any
\* thread may be anywhere in its call while another starts, runs or returns.
NextConc ==
    \/ with_static_source_file_resolver_mut
    \/ custom_inject_location_mut
    \/ \E t \in Threads : compile(t)
    \/ \E t \in Threads : compile_with_input(t)
    \/ \E t \in Threads : EngineMain(t)
    \/ \E t \in Threads : EngineFinish(t)
    \/ \E t \in Threads : compile_helper_return(t)

SpecConc == Init /\ [][NextConc]_vars

\* The caching decorator and eviction, on the collection built by
\* TypstTemplateCollection::new(fonts).with_file_system_resolver(root).
InitCache ==
    /\ file_resolvers = <<CachedFileSystemResolver>>
    /\ inject_location = NoLocation
    /\ library = DefaultLibrary
    /\ comemo_evict_max_age = Some(0)
    /\ caches = <<EmptyCache>>
    /\ fs = [id \in Ids |-> "absent"]
    /\ clock = 23
    /\ calls = [t \in Threads |-> IdleCall]
    /\ lastQ = NoQuery
    /\ served = <<NothingServed>>

NextCache ==
    \/ set_comemo_evict_max_age
    \/ FsWrite
    \/ compile(Caller)
    \/ EngineMain(Caller)
    \/ EngineQuery(Caller)
    \/ EngineFinish(Caller)
    \/ compile_helper_return(Caller)

SpecCache == InitCache /\ [][NextCache]_vars

(***************************************************************************)
(* Properties.                                                              *)
(***************************************************************************)
\* The resolvers that, each on its own, answered the last resolution.
Succeeding == {i \in DOMAIN lastQ.outs : lastQ.outs[i].ok}
FirstSucceeding == CHOOSE i \in Succeeding : \A j \in Succeeding : i <= j

\* C1: a resolution through the chain returns the success of the first
\* resolver, in registration order, that succeeds, and invokes exactly the
\* resolvers up to that one: none registered after it.
C1_FirstSuccessShortCircuits ==
    (lastQ.op # "none" /\ Succeeding # {}) =>
        /\ lastQ.result = lastQ.outs[FirstSucceeding]
        /\ lastQ.invoked = [i \in 1..FirstSucceeding |-> i]

\* Two resolvers hold different content for the identifier; the chain
\* returned the first one's and invoked only it.
C1_Witness ==
    /\ lastQ.op = "source"
    /\ Cardinality(Succeeding) = 2
    /\ lastQ.outs[1] # lastQ.outs[2]
    /\ lastQ.result = lastQ.outs[1]
    /\ Len(lastQ.invoked) = 1

\* C2: when every registered resolver fails (and there is at least one),
\* the chain returns the error of the last-registered resolver.
C2_LastErrorReturned ==
    (lastQ.op # "none" /\ Succeeding = {} /\ Len(lastQ.outs) >= 1) =>
        /\ lastQ.result = lastQ.outs[Len(lastQ.outs)]
        /\ ~lastQ.result.ok

\* Two resolvers fail with different errors; the chain reports the second's.
C2_Witness ==
    /\ lastQ.op # "none"
    /\ Len(lastQ.outs) = 2
    /\ Succeeding = {}
    /\ lastQ.outs[1] # lastQ.outs[2]
    /\ lastQ.result = lastQ.outs[2]

\* C3: a compile or compile_with_input call whose main identifier no
\* resolver of the collection holds ends with MainSourceFileDoesNotExist(main),
\* before any resolver is queried and before the engine is invoked.  (Calls
\* ended by a failed injection are left aside.)
C3_MissingMainFailsEarly ==
    \A t \in Threads :
        (/\ calls[t].pc = "returned"
         /\ calls[t].kind \in {"compile", "compile_with_input"}
         /\ ~calls[t].main_known
         /\ calls[t].ret.output.err # HintedString) =>
            /\ calls[t].ret.output = Err(MainSourceFileDoesNotExist(calls[t].main))
            /\ ~calls[t].queried
            /\ ~calls[t].engine_invoked

\* A step of the call thread t is in, or its first step.
StepOf(t, kind) ==
    /\ calls'[t] # calls[t]
    /\ \/ InFlight(t) /\ calls[t].kind = kind
       \/ ~InFlight(t) /\ calls'[t].kind = kind

\* C4: no step of a compile_with_input call, from building its world to its
\* return, successful or failed, changes the collection's library.
C4_BaseLibraryUnchanged ==
    [][\A t \in Threads : StepOf(t, "compile_with_input") => library' = library]_vars

\* A compile_with_input call runs on an injected library of its own while
\* the collection's library is still the default one.
C4_Witness ==
    \E t \in Threads :
        /\ calls[t].kind = "compile_with_input"
        /\ calls[t].pc = "engine_run"
        /\ calls[t].world.library.cow = "Owned"
        /\ <<"inputs", calls[t].input>> \in calls[t].world.library.lib["sys"].scope
        /\ library = DefaultLibrary

\* The inputs a library exposes.
Exposed(lib) == {b[2] : b \in UNION {lib[n].scope : n \in GlobalNames}} \cap Inputs

\* C5: the library a compile call (no injection requested) hands to the
\* engine exposes no input injected by an earlier call.
C5_NoInjectionLeak ==
    \A t \in Threads :
        (InFlight(t) /\ calls[t].kind = "compile") =>
            Exposed(WorldLibrary(calls[t].world)) = {}

\* C6: within one compile call, all today(offset) queries with the same
\* offset return the same date.
C6_TodayFixedPerCall ==
    \A t \in Threads : \A o \in Offsets :
        \A i, j \in DOMAIN calls[t].todays[o] :
            calls[t].todays[o][i].date = calls[t].todays[o][j].date

\* Two today queries with the same offset, the wall clock having passed
\* midnight (for that offset) between them.
C6_Witness ==
    \E t \in Threads : \E o \in Offsets :
        /\ Len(calls[t].todays[o]) = 2
        /\ LET first == calls[t].todays[o][1]
               second == calls[t].todays[o][2]
           IN /\ first.at < second.at
              /\ today([now |-> first.at], o) # today([now |-> second.at], o)

\* C7: a call that reached the engine returns exactly the engine's warnings
\* with its result, whether that is a document or an error.
C7_WarningsReturned ==
    \A t \in Threads :
        (calls[t].pc = "returned" /\ calls[t].engine_invoked) =>
            /\ calls[t].ret.warnings = calls[t].engine.warnings
            /\ calls[t].ret.output.ok = calls[t].engine.output.ok

\* A call returns the engine's error together with a warning.
C7_Witness ==
    \E t \in Threads :
        /\ calls[t].pc = "returned"
        /\ calls[t].engine_invoked
        /\ ~calls[t].ret.output.ok
        /\ calls[t].engine.warnings = <<"w1">>
        /\ calls[t].ret.warnings = <<"w1">>

\* The resolvers of the last resolution's chain that sit on the file system.
Decorators ==
    {i \in Range(lastQ.invoked) : file_resolvers[i].kind \in FileSystemKinds}

\* C8: once the resolver installed by with_file_system_resolver has resolved
\* an identifier, a further resolution of it with no eviction in between
\* returns the same content without invoking the inner resolver; a failed
\* resolution inserts nothing (an entry appears only with the content just
\* resolved), so the attempt after a failure invokes the inner resolver.
C8_CacheServesAndSkipsFailures ==
    /\ [](\A i \in Decorators :
            /\ lastQ.before[i] \in Contents =>
                  (lastQ.outs[i] = Ok(lastQ.before[i]) /\ i \notin lastQ.inner)
            /\ lastQ.before[i] = "failed" => i \in lastQ.inner)
    /\ [][\A i \in DOMAIN caches : \A k \in Keys :
            (caches[i][k].content = "none" /\ caches'[i][k].content # "none") =>
                /\ lastQ'.op = k[1] /\ lastQ'.id = k[2]
                /\ i \in Range(lastQ'.invoked)
                /\ lastQ'.outs[i] = Ok(caches'[i][k].content)]_vars

\* The file changed after it was resolved; the second resolution still
\* returns the first content and does not read the file.
C8_Witness ==
    /\ lastQ.op # "none"
    /\ 1 \in Decorators
    /\ lastQ.before[1] = "c1"
    /\ fs[lastQ.id] = "c2"
    /\ lastQ.result = Ok("c1")
    /\ 1 \notin lastQ.inner

\* A step on which a compile call evicts.
Evicts ==
    \E t \in Threads :
        calls[t].pc = "compiled" /\ calls'[t].evictions = calls[t].evictions + 1

\* C9: an entry changes only by an eviction, and an eviction with max age N
\* advances the epoch and removes exactly the entries then more than N ticks
\* old, the others staying, one tick older; with no max age configured there
\* is no eviction, so no entry is ever evicted.  An entry that is there is
\* served, one that is gone makes the decorator invoke the inner resolver
\* again.
C9_EvictionByAge ==
    /\ [][~comemo_evict_max_age.some => ~Evicts]_vars
    /\ [][\A i \in DOMAIN caches : \A k \in Keys :
            caches[i][k].content # "none" =>
                IF Evicts
                THEN IF caches[i][k].age + 1 > comemo_evict_max_age.v
                     THEN caches'[i][k] = NoEntry
                     ELSE caches'[i][k] = [caches[i][k] EXCEPT !.age = @ + 1]
                ELSE caches'[i][k] = caches[i][k]]_vars
    /\ [](\A i \in Decorators : lastQ.cached[i] <=> i \notin lastQ.inner)

\* With max age 1, an entry that is one tick old is served from the cache.
C9_Witness ==
    /\ lastQ.op # "none"
    /\ comemo_evict_max_age = Some(1)
    /\ 1 \in Decorators
    /\ lastQ.cached[1]
    /\ caches[1][<<lastQ.op, lastQ.id>>].age = 1
    /\ 1 \notin lastQ.inner

\* Where inputs are injected.
ModuleName == IF inject_location.some THEN inject_location.module_name ELSE "sys"
ValueName == IF inject_location.some THEN inject_location.value_name ELSE "inputs"
InputKinds == {"compile_with_input", "compile_with_input_fast"}

\* C10: the library a call with an input runs on holds, at the inject
\* location (sys, inputs unless configured), a module with exactly one
\* binding, the call's input, whatever the module or an earlier injection
\* held there; every other global binding is as it was before the injection.
C10_InjectionReplacesWholesale ==
    /\ [](\A t \in Threads :
            (InFlight(t) /\ calls[t].kind \in InputKinds) =>
                LET lib == WorldLibrary(calls[t].world)
                IN /\ lib[ModuleName].type = "module"
                   /\ lib[ModuleName].scope = {<<ValueName, calls[t].input>>}
                   /\ ~inject_location.some =>
                         lib["sys"].scope = {<<"inputs", calls[t].input>>})
    /\ [][\A t \in Threads :
            (~InFlight(t) /\ calls'[t].pc = "engine_main" /\ calls'[t].kind \in InputKinds) =>
                LET w == calls'[t].world.library
                    lib == IF w.cow = "Borrowed" THEN library' ELSE w.lib
                IN \A n \in GlobalNames \ {ModuleName} : lib[n] = library[n]]_vars

\* Input A was injected into the collection's library; a later call injects
\* B into its clone, which holds B alone.
C10_Witness ==
    \E t \in Threads :
        /\ calls[t].kind = "compile_with_input"
        /\ InFlight(t)
        /\ calls[t].input = "B"
        /\ library["sys"].scope = {<<"inputs", "A">>}
        /\ calls[t].world.library.lib["sys"].scope = {<<"inputs", "B">>}

\* The scope refuses the injection at the configured location.
InjectionFails ==
    library[ModuleName].type # "none" /\ library[ModuleName].kind = "Captured"

\* C11: a compile_with_input or compile_with_input_fast call whose injection
\* fails returns at once the injection error with no warnings, no resolver
\* queried and the engine not invoked; a call that returns any other error
\* has invoked the engine.
C11_InjectionFailureAbortsEarly ==
    /\ [][\A t \in Threads :
            (/\ ~InFlight(t)
             /\ calls'[t] # calls[t]
             /\ calls'[t].kind \in InputKinds
             /\ InjectionFails) =>
                /\ calls'[t].pc = "returned"
                /\ calls'[t].ret = Warned(Err(HintedString), <<>>)
                /\ ~calls'[t].engine_invoked
                /\ ~calls'[t].queried
                /\ lastQ' = lastQ /\ caches' = caches]_vars
    /\ [](\A t \in Threads :
            (calls[t].pc = "returned" /\ ~calls[t].ret.output.ok) =>
                IF calls[t].ret.output.err = HintedString
                THEN /\ calls[t].kind \in InputKinds
                     /\ calls[t].ret.warnings = <<>>
                     /\ ~calls[t].engine_invoked
                     /\ ~calls[t].queried
                ELSE calls[t].engine_invoked)

\* A compile_with_input_fast call ended by a failed injection.
C11_Witness ==
    \E t \in Threads :
        /\ calls[t].pc = "returned"
        /\ calls[t].kind = "compile_with_input_fast"
        /\ calls[t].ret = Warned(Err(HintedString), <<>>)
        /\ ~calls[t].engine_invoked
        /\ InjectionFails

\* C12: every compile call that went through the engine has, when it
\* returns, triggered eviction exactly once if an eviction age is configured
\* and not at all otherwise.
C12_EvictionOncePerCompile ==
    \A t \in Threads :
        (calls[t].pc = "returned" /\ calls[t].engine_invoked) =>
            calls[t].evictions = IF comemo_evict_max_age.some THEN 1 ELSE 0

\* C13: whatever the interleaving of compile_with_input and compile calls of
\* several threads, the library of each compile_with_input call in flight
\* holds exactly that call's input at the inject location and no other
\* input, the library of each compile call in flight is the collection's
\* unmodified one, and no step of any of these calls writes the
\* collection's library.
C13_ConcurrentCallsIsolated ==
    /\ [](\A t \in Threads :
            InFlight(t) =>
                LET lib == WorldLibrary(calls[t].world)
                IN IF calls[t].kind = "compile_with_input"
                   THEN /\ lib[ModuleName].scope = {<<ValueName, calls[t].input>>}
                        /\ Exposed(lib) = {calls[t].input}
                   ELSE /\ lib = DefaultLibrary
                        /\ Exposed(lib) = {})
    /\ [][\A t \in Threads :
            (StepOf(t, "compile") \/ StepOf(t, "compile_with_input")) =>
                library' = library]_vars
    /\ [](library = DefaultLibrary)

\* Two compile_with_input calls with different inputs in flight at once,
\* each on its own injected library.
C13_Witness ==
    /\ InFlight("t1") /\ calls["t1"].kind = "compile_with_input"
    /\ InFlight("t2") /\ calls["t2"].kind = "compile_with_input"
    /\ calls["t1"].input = "A" /\ calls["t2"].input = "B"
    /\ Exposed(WorldLibrary(calls["t1"].world)) = {"A"}
    /\ Exposed(WorldLibrary(calls["t2"].world)) = {"B"}
    /\ calls["t1"].pc = "engine_run" /\ calls["t2"].pc = "engine_main"

\* C14: with no resolver registered, resolve_source and resolve_file return
\* NotFound(id) for every identifier id and invoke nothing; with resolvers
\* registered that all fail, NotFound(id) is returned only if the
\* last-registered resolver itself reported it: the pre-set default never
\* survives a failing resolver.
C14_NotFoundDefault ==
    /\ file_resolvers = <<>> =>
          \A id \in Ids :
             /\ resolve_source(id).result = Err(not_found(id))
             /\ resolve_file(id).result = Err(not_found(id))
             /\ resolve_source(id).invoked = <<>>
             /\ resolve_file(id).invoked = <<>>
    /\ (lastQ.op # "none" /\ Len(lastQ.outs) = 0) =>
          lastQ.result = Err(not_found(lastQ.id))
    /\ (/\ lastQ.op # "none"
        /\ Len(lastQ.outs) >= 1
        /\ lastQ.outs[Len(lastQ.outs)] # Err(not_found(lastQ.id))) =>
            lastQ.result # Err(not_found(lastQ.id))

\* The engine asked for a source of a collection without resolvers and got
\* NotFound for that identifier.
C14_Witness ==
    /\ file_resolvers = <<>>
    /\ lastQ.op = "source"
    /\ lastQ.id \in Ids
    /\ lastQ.invoked = <<>>
    /\ lastQ.result = Err(not_found(lastQ.id))

====
